---- MODULE Spec2Model ----
(***************************************************************************)
(* Module persistence subsystem of EASY_WAY_A1: the SQLite table           *)
(* `modules` (backend/database/db.js), the module repository and the       *)
(* seeding routine (backend/database/seedData.js) and the HTTP layer       *)
(* (backend/server.js).  Every repository operation is a chain of          *)
(* callbacks, one per SQL statement; statements of different requests      *)
(* interleave, each statement is atomic.                                   *)
(***************************************************************************)
EXTENDS Integers, Sequences, FiniteSets, TLC

VARIABLES
    table,      \* rows of `modules`: a function from the ids present to rows
    seq,        \* sqlite_sequence of the AUTOINCREMENT key: largest id ever issued
    clock,      \* CURRENT_TIMESTAMP of the storage engine, in whole seconds
    pc,         \* per request handler: the statement it waits for
    req,        \* per request handler: the request it serves
    out,        \* per request handler: how the last request ended
    crashed,    \* the node process died on an exception thrown in a callback
    nops,       \* requests started so far
    nfaults,    \* storage failures injected so far
    hist,       \* history: what the statements did (ids issued, deletes, writes)
    given,      \* the input under test of the single-call specifications
    client,     \* the client API module: its call in progress and how it ended
    app         \* the App component: its state and its handlers in progress

vars == <<table, seq, clock, pc, req, out, crashed, nops, nfaults, hist, given, client, app>>

(***************************************************************************)
(* Bounds of the model.                                                    *)
(***************************************************************************)
MaxId == 4
MaxClock == 1
MaxOps == 3
MaxFaults == 1

Procs == {"h1", "h2"}

(***************************************************************************)
(* JavaScript values.  A value is undefined, null, a number or a string;   *)
(* a string is a sequence of one-character strings.                        *)
(***************************************************************************)
Undef == [t |-> "undefined", v |-> <<>>]
Null == [t |-> "null", v |-> <<>>]
Num == [t |-> "number", v |-> <<"7">>]
Str(s) == [t |-> "string", v |-> s]

IsString(x) == x.t = "string"

\* !x of JavaScript: undefined, null and the empty string are falsy
\* (the number of the model is 7, which is truthy).
Falsy(x) == x.t \in {"undefined", "null"} \/ (x.t = "string" /\ x.v = <<>>)

RECURSIVE TrimStart(_)
TrimStart(s) == IF s # <<>> /\ Head(s) = " " THEN TrimStart(Tail(s)) ELSE s

RECURSIVE TrimEnd(_)
TrimEnd(s) ==
    IF s # <<>> /\ s[Len(s)] = " " THEN TrimEnd(SubSeq(s, 1, Len(s) - 1)) ELSE s

\* String.prototype.trim
Trim(s) == TrimEnd(TrimStart(s))

\* x || null
OrNull(x) == IF Falsy(x) THEN Null ELSE x

(***************************************************************************)
(* Request bodies: moduleData with its en and kn contents.  `obj` is false *)
(* for a body or a content that is missing.                                *)
(***************************************************************************)
Content(n, d, ph) == [obj |-> TRUE, name |-> n, description |-> d, inputPlaceholder |-> ph]
NoContent == [obj |-> FALSE, name |-> Undef, description |-> Undef, inputPlaceholder |-> Undef]
Data(p, e, k) == [obj |-> TRUE, prompt |-> p, en |-> e, kn |-> k]
NoData == [obj |-> FALSE, prompt |-> Undef, en |-> NoContent, kn |-> NoContent]

(***************************************************************************)
(* Error messages, word by word, and String.prototype.includes on them.    *)
(***************************************************************************)
NoError == <<>>
MsgDataRequired == <<"Module", "data", "is", "required">>
MsgPromptRequired == <<"Module", "prompt", "is", "required">>
MsgEnglishRequired == <<"English", "name", "is", "required">>
MsgKannadaRequired == <<"Kannada", "name", "is", "required">>
MsgIdRequired == <<"Valid", "module", "ID", "is", "required">>
MsgNotFound(id) == <<"Module", "with", "ID", ToString(id), "not", "found">>
MsgCreateFailed == <<"Failed", "to", "create", "module", "in", "database">>
MsgCreateUnread == <<"Module", "created", "but", "failed", "to", "retrieve">>
MsgVerifyFailed == <<"Failed", "to", "verify", "module", "existence">>
MsgUpdateFailed == <<"Failed", "to", "update", "module", "in", "database">>
MsgUpdateUnread == <<"Module", "updated", "but", "failed", "to", "retrieve">>
MsgDeleteFailed == <<"Failed", "to", "delete", "module", "from", "database">>
MsgDeleteIneffective == <<"Module", "deletion", "failed", "-", "no", "rows", "affected">>
MsgFetchFailed == <<"Failed", "to", "fetch", "modules", "from", "database">>
MsgSeedFailed == <<"Database", "seeding", "failed">>
MsgHttpCreate == <<"Failed", "to", "create", "module">>
MsgHttpUpdate == <<"Failed", "to", "update", "module">>
MsgHttpDelete == <<"Failed", "to", "delete", "module">>
MsgHttpFetch == <<"Failed", "to", "fetch", "modules">>

Includes(msg, pat) ==
    \E i \in 1..(Len(msg) - Len(pat) + 1) : SubSeq(msg, i, i + Len(pat) - 1) = pat

(***************************************************************************)
(* Repository validation (createModule and updateModule share it).         *)
(***************************************************************************)
\* !x || typeof x !== 'string' || x.trim() === ''
Missing(x) == Falsy(x) \/ ~IsString(x) \/ Trim(x.v) = <<>>

\* a validation that looks at the names before the prompt
ValidateDataNamesFirst(d) ==
    IF ~d.obj THEN MsgDataRequired
    ELSE IF ~d.en.obj \/ Missing(d.en.name) THEN MsgEnglishRequired
    ELSE IF ~d.kn.obj \/ Missing(d.kn.name) THEN MsgKannadaRequired
    ELSE IF Missing(d.prompt) THEN MsgPromptRequired
    ELSE NoError

\* a validation that checks the prompt and forgets the names
ValidateDataPromptOnly(d) ==
    IF ~d.obj THEN MsgDataRequired
    ELSE IF Missing(d.prompt) THEN MsgPromptRequired
    ELSE NoError

ValidateData(d) ==
    IF ~d.obj THEN MsgDataRequired
    ELSE IF Missing(d.prompt) THEN MsgPromptRequired
    ELSE IF ~d.en.obj \/ Missing(d.en.name) THEN MsgEnglishRequired
    ELSE IF ~d.kn.obj \/ Missing(d.kn.name) THEN MsgKannadaRequired
    ELSE NoError

\* !id || !Number.isInteger(Number(id)) || Number(id) <= 0, for an id that
\* is a number or NaN
ValidateId(id) == IF id.nan \/ ~id.whole \/ id.n <= 0 THEN MsgIdRequired ELSE NoError

\* what the driver binds for a parameter passed as it came
Bound(x) == IF x.t = "undefined" THEN Null ELSE x

\* parameters without the `|| null` of the optional fields
ParamsAsPassed(d) ==
    [prompt |-> Str(Trim(d.prompt.v)),
     en_name |-> Str(Trim(d.en.name.v)),
     en_description |-> Bound(d.en.description),
     en_input_placeholder |-> Bound(d.en.inputPlaceholder),
     kn_name |-> Str(Trim(d.kn.name.v)),
     kn_description |-> Bound(d.kn.description),
     kn_input_placeholder |-> Bound(d.kn.inputPlaceholder)]

\* the seven bound parameters of the INSERT and the UPDATE
Params(d) ==
    [prompt |-> Str(Trim(d.prompt.v)),
     en_name |-> Str(Trim(d.en.name.v)),
     en_description |-> OrNull(d.en.description),
     en_input_placeholder |-> OrNull(d.en.inputPlaceholder),
     kn_name |-> Str(Trim(d.kn.name.v)),
     kn_description |-> OrNull(d.kn.description),
     kn_input_placeholder |-> OrNull(d.kn.inputPlaceholder)]

(***************************************************************************)
(* The flat row and the nested entity.                                     *)
(***************************************************************************)
Row(id, par, created, updated) ==
    [id |-> id,
     prompt |-> par.prompt,
     en_name |-> par.en_name,
     en_description |-> par.en_description,
     en_input_placeholder |-> par.en_input_placeholder,
     kn_name |-> par.kn_name,
     kn_description |-> par.kn_description,
     kn_input_placeholder |-> par.kn_input_placeholder,
     created_at |-> created,
     updated_at |-> updated]

\* the row-to-entity transform of every read path
ToModule(row) ==
    [id |-> row.id,
     prompt |-> row.prompt,
     en |-> [name |-> row.en_name,
             description |-> row.en_description,
             inputPlaceholder |-> row.en_input_placeholder],
     kn |-> [name |-> row.kn_name,
             description |-> row.kn_description,
             inputPlaceholder |-> row.kn_input_placeholder],
     createdAt |-> row.created_at,
     updatedAt |-> row.updated_at]

(***************************************************************************)
(* parseInt of the :id path segment: optional leading blanks, an optional  *)
(* sign, then the longest run of decimal digits; NaN when there is none.   *)
(***************************************************************************)
Digits == <<"0", "1", "2", "3", "4", "5", "6", "7", "8", "9">>
IsDigit(c) == \E i \in 1..Len(Digits) : Digits[i] = c
DigitVal(c) == (CHOOSE i \in 1..Len(Digits) : Digits[i] = c) - 1

RECURSIVE DigitPrefix(_)
DigitPrefix(s) ==
    IF s # <<>> /\ IsDigit(Head(s)) THEN <<Head(s)>> \o DigitPrefix(Tail(s)) ELSE <<>>

RECURSIVE DecimalValue(_)
DecimalValue(ds) ==
    IF ds = <<>> THEN 0
    ELSE 10 * DecimalValue(SubSeq(ds, 1, Len(ds) - 1)) + DigitVal(ds[Len(ds)])

\* a JS number: NaN, the integer n, or a number strictly between n and n + 1
NaN == [nan |-> TRUE, n |-> 0, whole |-> FALSE]
Number(n) == [nan |-> FALSE, n |-> n, whole |-> TRUE]
Fraction(n) == [nan |-> FALSE, n |-> n, whole |-> FALSE]

\* a parse that drops the sign
ParseIntUnsigned(seg) ==
    LET s == TrimStart(seg)
        signed == s # <<>> /\ Head(s) \in {"-", "+"}
        ds == DigitPrefix(IF signed THEN Tail(s) ELSE s)
    IN  IF ds = <<>> THEN NaN ELSE Number(DecimalValue(ds))

ParseInt(seg) ==
    LET s == TrimStart(seg)
        signed == s # <<>> /\ Head(s) \in {"-", "+"}
        body == IF signed THEN Tail(s) ELSE s
        ds == DigitPrefix(body)
    IN  IF ds = <<>> THEN NaN
        ELSE IF signed /\ Head(s) = "-" THEN Number(0 - DecimalValue(ds))
        ELSE Number(DecimalValue(ds))

(***************************************************************************)
(* The default modules of the seeding routine.                             *)
(***************************************************************************)
DefaultModules ==
    << Data(Str(<<"s">>),
            Content(Str(<<"T">>), Str(<<"t">>), Str(<<"x">>)),
            Content(Str(<<"U">>), Str(<<"u">>), Str(<<"y">>))),
       Data(Str(<<"w">>),
            Content(Str(<<"E">>), Str(<<"e">>), Str(<<"x">>)),
            Content(Str(<<"F">>), Str(<<"f">>), Str(<<"y">>))),
       Data(Str(<<"a">>),
            Content(Str(<<"I">>), Str(<<"i">>), Str(<<"x">>)),
            Content(Str(<<"J">>), Str(<<"j">>), Str(<<"y">>))) >>

DefaultCount == Len(DefaultModules)

(***************************************************************************)
(* The storage engine.                                                     *)
(***************************************************************************)
SetMax(S) == IF S = {} THEN 0 ELSE CHOOSE x \in S : \A y \in S : y <= x

Larger(a, b) == IF a >= b THEN a ELSE b

\* a key without AUTOINCREMENT: one more than the largest id in the table
NextRowIdOfLargestRow(t, s) == SetMax(DOMAIN t) + 1

\* INTEGER PRIMARY KEY AUTOINCREMENT: one more than the largest id the table
\* holds or has ever held
NextRowId(t, s) == Larger(s, SetMax(DOMAIN t)) + 1

\* an INSERT whose updated_at is set a second after created_at
InsertRowStampedApart(t, id, par, now) == t @@ (id :> Row(id, par, now, now + 1))

\* INSERT INTO modules (...seven columns...): both timestamps default to
\* CURRENT_TIMESTAMP
InsertRow(t, id, par, now) == t @@ (id :> Row(id, par, now, now))

\* an UPDATE that leaves updated_at out of its SET list
UpdateRowStaleStamp(t, id, par, now) ==
    IF id \in DOMAIN t
    THEN [t EXCEPT ![id] = Row(id, par, t[id].created_at, t[id].updated_at)]
    ELSE t

\* an UPDATE that replaces the row, created_at included
UpdateRowReplaced(t, id, par, now) ==
    IF id \in DOMAIN t THEN [t EXCEPT ![id] = Row(id, par, now, now)] ELSE t

\* an UPDATE that inserts the row it does not find
UpdateRowUpsert(t, id, par, now) ==
    IF id \in DOMAIN t
    THEN [t EXCEPT ![id] = Row(id, par, t[id].created_at, now)]
    ELSE t @@ (id :> Row(id, par, now, now))

\* an UPDATE that leaves prompt out of its SET list
UpdateRowKeepsPrompt(t, id, par, now) ==
    IF id \in DOMAIN t
    THEN [t EXCEPT ![id] = Row(id, [par EXCEPT !.prompt = t[id].prompt], t[id].created_at, now)]
    ELSE t

\* UPDATE modules SET ...seven columns..., updated_at = CURRENT_TIMESTAMP
\* WHERE id = ?
UpdateRow(t, id, par, now) ==
    IF id \in DOMAIN t
    THEN [t EXCEPT ![id] = Row(id, par, t[id].created_at, now)]
    ELSE t

\* DELETE FROM modules WHERE id = ?
DeleteRow(t, id) == [k \in DOMAIN t \ {id} |-> t[k]]

\* SELECT ... WHERE id = ? of getModuleById: the entity or null
GetModuleById(t, id) == IF id \in DOMAIN t THEN ToModule(t[id]) ELSE Null

Perms(S) ==
    {f \in [1..Cardinality(S) -> S] : \A i, j \in 1..Cardinality(S) : i # j => f[i] # f[j]}

\* SELECT ... ORDER BY created_at DESC of getAllModules: rows of one second
\* come in the order the engine chooses
GetAllModules(t) ==
    {[i \in 1..Len(o) |-> ToModule(t[o[i]])] :
        o \in {f \in Perms(DOMAIN t) :
                 \A i, j \in 1..Len(f) :
                    i < j => t[f[i]].created_at >= t[f[j]].created_at}}

(***************************************************************************)
(* Requests and their outcomes.                                            *)
(***************************************************************************)
NoReq == [op |-> "none", seg |-> <<>>, id |-> NaN, data |-> NoData,
          i |-> 0, made |-> <<>>, last |-> 0]

Pending == [kind |-> "none", status |-> 0, err |-> NoError, body |-> NoError, val |-> Null]
Ok(status, val) ==
    [kind |-> "ok", status |-> status, err |-> NoError, body |-> NoError, val |-> val]
Fail(status, err, body) ==
    [kind |-> "err", status |-> status, err |-> err, body |-> body, val |-> Null]

\* the catch block of app.post
PostFail(err) ==
    IF Includes(err, <<"required">>) THEN Fail(400, err, err)
    ELSE Fail(500, err, MsgHttpCreate)

\* a catch block that passes the repository's message on with every status
PutFailLeaky(err) ==
    IF Includes(err, <<"not", "found">>) THEN Fail(404, err, err)
    ELSE IF Includes(err, <<"required">>) THEN Fail(400, err, err)
    ELSE Fail(500, err, err)

\* the catch block of app.put
PutFail(err) ==
    IF Includes(err, <<"not", "found">>) THEN Fail(404, err, err)
    ELSE IF Includes(err, <<"required">>) THEN Fail(400, err, err)
    ELSE Fail(500, err, MsgHttpUpdate)

\* a catch block that answers a delete without effect like a missing module
DeleteFailGoneIsNotFound(err) ==
    IF Includes(err, <<"not", "found">>) \/ err = MsgDeleteIneffective THEN Fail(404, err, err)
    ELSE IF Includes(err, <<"required">>) THEN Fail(400, err, err)
    ELSE Fail(500, err, MsgHttpDelete)

\* the catch block of app.delete
DeleteFail(err) ==
    IF Includes(err, <<"not", "found">>) THEN Fail(404, err, err)
    ELSE IF Includes(err, <<"required">>) THEN Fail(400, err, err)
    ELSE Fail(500, err, MsgHttpDelete)

\* how a rejected repository call ends the request that made it; the catch
\* block of seedDatabase replaces every error by its own
Rejected(op, err) ==
    CASE op = "create" -> PostFail(err)
      [] op = "update" -> PutFail(err)
      [] op = "delete" -> DeleteFail(err)
      [] op = "list" -> Fail(500, err, MsgHttpFetch)
      [] OTHER -> Fail(0, MsgSeedFailed, NoError)

(***************************************************************************)
(* Inputs of the model.                                                    *)
(***************************************************************************)
Blank == Str(<<" ">>)
Empty == Str(<<>>)

DataSet ==
    { Data(Str(<<"p">>), Content(Str(<<"e">>), Undef, Empty),
                         Content(Str(<<"k">>), Str(<<"d">>), Null)),
      Data(Str(<<" ", "q">>), Content(Str(<<"e", " ">>), Str(<<"d">>), Undef),
                              Content(Str(<<"k">>), Blank, Undef)),
      Data(Str(<<"p">>), NoContent, Content(Blank, Undef, Undef)) }

SegSet == {<<Digits[n + 1]>> : n \in 0..MaxId} \cup {<<"a">>}

(***************************************************************************)
(* The client API module: ApiError, apiRequest and the local validation of *)
(* createModule, updateModule and deleteModule.                            *)
(***************************************************************************)
MsgClientPrompt == <<"Prompt", "is", "required">>
MsgNetwork ==
    <<"Network", "error:", "Unable", "to", "connect", "to", "server.",
      "Please", "check", "your", "connection.">>
MsgApiFailed == <<"API", "request", "failed">>
MsgUnexpected == <<"An", "unexpected", "error", "occurred">>
MsgHttpLine(status, statusText) == <<"HTTP", ToString(status)>> \o statusText
\* the texts of the errors the JavaScript runtime raises
MsgSyntax == <<"Unexpected", "token", "<", "in", "JSON">>
MsgNoProperty == <<"Cannot", "read", "properties", "of", "undefined">>
MsgNotFunction == <<"trim", "is", "not", "a", "function">>

\* new ApiError(message, status), and an error of another class, which has
\* no status: the status field holds one number or none
ApiError(msg, status) == [type |-> "ApiError", message |-> msg, status |-> <<status>>]
Thrown(type, msg) == [type |-> type, message |-> msg, status |-> <<>>]
NoThrow == [type |-> "none", message |-> NoError, status |-> <<>>]

Returns(v) == [kind |-> "returns", val |-> v, error |-> NoThrow]
Throws(e) == [kind |-> "throws", val |-> Undef, error |-> e]
NoOutcome == [kind |-> "none", val |-> Undef, error |-> NoThrow]

\* x?.trim(): nothing when x is undefined or null, the trimmed string when x
\* is a string; a value of another type has no trim and the call throws
ChainedTrim(x) ==
    IF x.t \in {"undefined", "null"} THEN "nothing"
    ELSE IF x.t # "string" THEN "throws"
    ELSE IF Trim(x.v) = <<>> THEN "empty"
    ELSE "text"

\* moduleData.en?.name and moduleData.kn?.name
ChainedName(c) == IF c.obj THEN c.name ELSE Undef

\* the local validation of createModule and updateModule; moduleData.prompt
\* of a missing moduleData throws
ClientValidateData(d) ==
    IF ~d.obj THEN Thrown("TypeError", MsgNoProperty)
    ELSE IF ChainedTrim(d.prompt) = "throws" THEN Thrown("TypeError", MsgNotFunction)
    ELSE IF ChainedTrim(d.prompt) # "text" THEN ApiError(MsgClientPrompt, 400)
    ELSE IF ChainedTrim(ChainedName(d.en)) = "throws" THEN Thrown("TypeError", MsgNotFunction)
    ELSE IF ChainedTrim(ChainedName(d.en)) # "text" THEN ApiError(MsgEnglishRequired, 400)
    ELSE IF ChainedTrim(ChainedName(d.kn)) = "throws" THEN Thrown("TypeError", MsgNotFunction)
    ELSE IF ChainedTrim(ChainedName(d.kn)) # "text" THEN ApiError(MsgKannadaRequired, 400)
    ELSE NoThrow

\* !id || id <= 0
ClientValidateId(id) ==
    IF id.nan \/ id.n < 0 \/ (id.n = 0 /\ id.whole) THEN ApiError(MsgIdRequired, 400)
    ELSE NoThrow

\* what fetch does: it rejects with an error (of some class, with some text,
\* or with a value that is no Error), or it resolves with a response
FetchRejects(type, text) == [kind |-> "rejects", type |-> type, text |-> text]
Response(status, statusText, body) ==
    [kind |-> "response", status |-> status, statusText |-> statusText, body |-> body]
\* response.ok
Succeeds(o) == o.status \in 200..299

\* the body of a response: no JSON, the JSON value null, or an envelope
Unparseable == [json |-> "none", success |-> FALSE, error |-> Undef, data |-> Undef]
JsonNull == [json |-> "null", success |-> FALSE, error |-> Undef, data |-> Undef]
Envelope(success, error, data) ==
    [json |-> "object", success |-> success, error |-> error, data |-> data]

\* the catch block of apiRequest, for an error that is no ApiError
ApiRequestCatch(type, text) ==
    IF type = "TypeError" /\ Includes(text, <<"fetch">>) THEN Throws(ApiError(MsgNetwork, 0))
    ELSE IF type = "none" THEN Throws(ApiError(MsgUnexpected, 0))
    ELSE Throws(ApiError(text, 0))

\* apiRequest: fetch, response.json(), the checks of response.ok and of
\* data.success, and the catch block around them
ApiRequest(o) ==
    IF o.kind = "rejects" THEN ApiRequestCatch(o.type, o.text)
    ELSE IF o.body.json = "none" THEN ApiRequestCatch("SyntaxError", MsgSyntax)
    ELSE IF o.body.json = "null" THEN ApiRequestCatch("TypeError", MsgNoProperty)
    ELSE IF ~Succeeds(o)
    THEN Throws(ApiError(IF Falsy(o.body.error) THEN MsgHttpLine(o.status, o.statusText)
                         ELSE o.body.error.v, o.status))
    ELSE IF ~o.body.success
    THEN Throws(ApiError(IF Falsy(o.body.error) THEN MsgApiFailed ELSE o.body.error.v, o.status))
    ELSE Returns(o.body.data)

\* the data of an envelope: absent, null, one entity or a list of entities
NoValue == [t |-> "undefined", v |-> <<>>]
NullValue == [t |-> "null", v |-> <<>>]
Entity(m) == [t |-> "object", v |-> m]
List(l) == [t |-> "array", v |-> l]

\* new Date(x) of a timestamp of the wire
ToDate(x) == [date |-> x]
WithDates(m) == [m EXCEPT !.createdAt = ToDate(@), !.updatedAt = ToDate(@)]

\* fetchModules: modules.map(...) of what apiRequest returned; a value that
\* is no array has no map
FetchModulesResult(o) ==
    LET r == ApiRequest(o)
    IN  IF r.kind = "throws" THEN r
        ELSE IF r.val.t = "array"
        THEN Returns(List([i \in 1..Len(r.val.v) |-> WithDates(r.val.v[i])]))
        ELSE IF r.val.t = "object" THEN Throws(Thrown("TypeError", MsgNotFunction))
        ELSE Throws(Thrown("TypeError", MsgNoProperty))

\* createModule and updateModule after their validation: the entity with
\* its two dates converted; reading createdAt of no value throws
EntityResult(o) ==
    LET r == ApiRequest(o)
    IN  IF r.kind = "throws" THEN r
        ELSE IF r.val.t \in {"undefined", "null"} THEN Throws(Thrown("TypeError", MsgNoProperty))
        ELSE IF r.val.t = "object" THEN Returns(Entity(WithDates(r.val.v)))
        ELSE Returns(Entity([items |-> r.val.v,
                             createdAt |-> ToDate(NoValue), updatedAt |-> ToDate(NoValue)]))

\* deleteModule: what apiRequest returns is dropped
DeleteResult(o) ==
    LET r == ApiRequest(o) IN IF r.kind = "throws" THEN r ELSE Returns(NoValue)

NoClient ==
    [pc |-> "idle", call |-> "none", id |-> NaN, data |-> NoData, fetches |-> 0,
     got |-> [kind |-> "none"], out |-> NoOutcome]

(***************************************************************************)
(* The App component: its state, its flags and modals, and the runs of     *)
(* its three module handlers. A run keeps the `state` of the render its    *)
(* handler was made in (the closure of the handler function).              *)
(***************************************************************************)
Handlers == {"u1", "u2"}

NoState == [modules |-> <<>>, selectedModule |-> Null]
NoRun == [pc |-> "idle", op |-> "none", id |-> 0, data |-> NoData, state |-> NoState]
NoLog == [added |-> {}, deleted |-> {}, succeeded |-> 0, overlapped |-> FALSE]
NoApp ==
    [state |-> NoState,
     moduleOperationLoading |-> FALSE,
     moduleOperationError |-> FALSE,
     modals |-> [addModule |-> FALSE, editModule |-> FALSE, editingModule |-> Null],
     run |-> [u \in Handlers |-> NoRun],
     started |-> 0,
     log |-> NoLog]

(***************************************************************************)
(* Initial state: an empty table, no request in flight.                    *)
(***************************************************************************)
NoUpdate == [hit |-> FALSE, at |-> 0, before |-> Null, after |-> Null]

\* issued: the ids successful creates returned, in order; deleted: the ids
\* successful deletes removed, with the second of the DELETE; writes: per id
\* the handler whose UPDATE changed the row last; upd: per handler, what the
\* UPDATE of its current request did
NoHistory ==
    [issued |-> <<>>, deleted |-> <<>>, writes |-> <<>>, upd |-> [p \in Procs |-> NoUpdate]]

NoInput == [data |-> NoData, seg |-> <<>>]

InitStore ==
    /\ table = <<>>
    /\ seq = 0
    /\ clock = 0
    /\ pc = [p \in Procs |-> "idle"]
    /\ req = [p \in Procs |-> NoReq]
    /\ out = [p \in Procs |-> Pending]
    /\ crashed = FALSE
    /\ nops = 0
    /\ nfaults = 0
    /\ hist = NoHistory
    /\ client = NoClient
    /\ app = NoApp

Init == InitStore /\ given = NoInput

\* a handler is free to take the next request
Free(p) == ~crashed /\ pc[p] \in {"idle", "done"} /\ nops < MaxOps

\* a handler takes a request
Begin(p) ==
    /\ Free(p)
    /\ nops' = nops + 1
    /\ hist' = [hist EXCEPT !.upd[p] = NoUpdate]

\* a handler waits for the statement `at`
At(p, at) == ~crashed /\ pc[p] = at

\* the seconds of CURRENT_TIMESTAMP pass
Tick ==
    /\ clock < MaxClock
    /\ clock' = clock + 1
    /\ UNCHANGED <<table, seq, pc, req, out, crashed, nops, nfaults, hist, given, client, app>>

\* the handler goes on to wait for the statement `at`
Go(p, at, r) ==
    /\ pc' = [pc EXCEPT ![p] = at]
    /\ req' = [req EXCEPT ![p] = r]
    /\ out' = [out EXCEPT ![p] = Pending]

\* the request ends with outcome o
End(p, r, o) ==
    /\ pc' = [pc EXCEPT ![p] = "done"]
    /\ req' = [req EXCEPT ![p] = r]
    /\ out' = [out EXCEPT ![p] = o]

\* a callback throws (it reads a field of the row the re-read did not
\* find): nothing catches it, the process exits and the request never settles
Crash(p) ==
    /\ pc' = [pc EXCEPT ![p] = "lost"]
    /\ crashed' = TRUE
    /\ UNCHANGED <<req, out>>

(***************************************************************************)
(* createModule: validate, INSERT, re-read.                                *)
(***************************************************************************)
\* the synchronous part: validation, then the INSERT is queued
CreateModule(p, r) ==
    LET e == ValidateData(r.data)
    IN  IF e # NoError THEN End(p, r, Rejected(r.op, e)) ELSE Go(p, "c_insert", r)

\* POST /api/modules
Post(p, d) ==
    /\ Begin(p)
    /\ LET r == [NoReq EXCEPT !.op = "create", !.data = d]
       IN  IF ~d.obj THEN End(p, r, Fail(400, NoError, MsgDataRequired))
           ELSE CreateModule(p, r)
    /\ UNCHANGED <<table, seq, clock, crashed, nfaults, given, client, app>>

\* the INSERT statement
CreateInsert(p) ==
    /\ At(p, "c_insert")
    /\ seq < MaxId
    /\ LET id == NextRowId(table, seq)
       IN  /\ table' = InsertRow(table, id, Params(req[p].data), clock)
           /\ seq' = id
           /\ Go(p, "c_read", [req[p] EXCEPT !.last = id])
    /\ UNCHANGED <<clock, crashed, nops, nfaults, hist, given, client, app>>

\* the re-read of the created row and the resolve; inside seedDatabase the
\* loop goes on with the next default module
CreateRead(p) ==
    /\ At(p, "c_read")
    /\ LET id == req[p].last
       IN  IF id \notin DOMAIN table
           THEN Crash(p) /\ UNCHANGED hist
           ELSE LET m == ToModule(table[id])
                    made == Append(req[p].made, m)
                IN  /\ hist' = [hist EXCEPT !.issued = Append(@, m.id)]
                    /\ UNCHANGED crashed
                    /\ IF req[p].op = "create" THEN End(p, req[p], Ok(201, m))
                       ELSE IF req[p].i = DefaultCount
                            THEN End(p, [req[p] EXCEPT !.made = made], Ok(0, made))
                       ELSE CreateModule(p, [req[p] EXCEPT !.made = made,
                                                           !.i = @ + 1,
                                                           !.data = DefaultModules[req[p].i + 1]])
    /\ UNCHANGED <<table, seq, clock, nops, nfaults, given, client, app>>

(***************************************************************************)
(* seedDatabase: the emptiness check, then the defaults one by one.        *)
(***************************************************************************)
\* an emptiness check that never finds a module
IsDatabaseEmptyAlways(t) == \A l \in GetAllModules(t) : Len(l) >= 0

\* modules.length === 0
IsDatabaseEmpty(t) == \A l \in GetAllModules(t) : Len(l) = 0

Seed(p) ==
    /\ Begin(p)
    /\ Go(p, "s_check", [NoReq EXCEPT !.op = "seed"])
    /\ UNCHANGED <<table, seq, clock, crashed, nfaults, given, client, app>>

SeedCheckTopsUp(p) ==
    /\ At(p, "s_check")
    /\ IF Cardinality(DOMAIN table) >= DefaultCount THEN End(p, req[p], Ok(0, <<>>))
       ELSE CreateModule(p, [req[p] EXCEPT !.i = 1, !.data = DefaultModules[1]])
    /\ UNCHANGED <<table, seq, clock, crashed, nops, nfaults, hist, given, client, app>>

SeedCheck(p) ==
    /\ At(p, "s_check")
    /\ IF ~IsDatabaseEmpty(table) THEN End(p, req[p], Ok(0, <<>>))
       ELSE CreateModule(p, [req[p] EXCEPT !.i = 1, !.data = DefaultModules[1]])
    /\ UNCHANGED <<table, seq, clock, crashed, nops, nfaults, hist, given, client, app>>

(***************************************************************************)
(* updateModule: validate, existence check, UPDATE, re-read.               *)
(***************************************************************************)
\* an updateModule that looks for the row before it validates the content
UpdateModuleExistenceFirst(p, r) ==
    IF ValidateId(r.id) # NoError THEN End(p, r, Rejected("update", ValidateId(r.id)))
    ELSE Go(p, "u_check", r)

UpdateModule(p, r) ==
    LET e == IF ValidateId(r.id) # NoError THEN ValidateId(r.id) ELSE ValidateData(r.data)
    IN  IF e # NoError THEN End(p, r, Rejected("update", e)) ELSE Go(p, "u_check", r)

\* PUT /api/modules/:id
Put(p, seg, d) ==
    /\ Begin(p)
    /\ LET id == ParseInt(seg)
           r == [NoReq EXCEPT !.op = "update", !.seg = seg, !.id = id, !.data = d]
       IN  IF id.nan \/ id.n <= 0 THEN End(p, r, Fail(400, NoError, MsgIdRequired))
           ELSE IF ~d.obj THEN End(p, r, Fail(400, NoError, MsgDataRequired))
           ELSE UpdateModule(p, r)
    /\ UNCHANGED <<table, seq, clock, crashed, nfaults, given, client, app>>

\* an existence check whose result is not looked at
UpdateCheckUnread(p) ==
    /\ At(p, "u_check")
    /\ Go(p, "u_write", req[p])
    /\ UNCHANGED <<table, seq, clock, crashed, nops, nfaults, hist, given, client, app>>

\* SELECT id FROM modules WHERE id = ?
UpdateCheck(p) ==
    /\ At(p, "u_check")
    /\ IF req[p].id.n \notin DOMAIN table
       THEN End(p, req[p], Rejected("update", MsgNotFound(req[p].id.n)))
       ELSE Go(p, "u_write", req[p])
    /\ UNCHANGED <<table, seq, clock, crashed, nops, nfaults, hist, given, client, app>>

\* the UPDATE statement
UpdateWrite(p) ==
    /\ At(p, "u_write")
    /\ LET id == req[p].id.n
       IN  /\ table' = UpdateRow(table, id, Params(req[p].data), clock)
           /\ hist' = IF id \in DOMAIN table
                      THEN [hist EXCEPT
                              !.writes = [k \in DOMAIN @ \cup {id} |->
                                            IF k = id THEN p ELSE @[k]],
                              !.upd[p] = [hit |-> TRUE, at |-> clock,
                                          before |-> table[id], after |-> table'[id]]]
                      ELSE hist
    /\ Go(p, "u_read", req[p])
    /\ UNCHANGED <<seq, clock, crashed, nops, nfaults, given, client, app>>

\* the re-read of the updated row and the resolve
UpdateRead(p) ==
    /\ At(p, "u_read")
    /\ IF req[p].id.n \notin DOMAIN table
       THEN Crash(p)
       ELSE End(p, req[p], Ok(200, ToModule(table[req[p].id.n]))) /\ UNCHANGED crashed
    /\ UNCHANGED <<table, seq, clock, nops, nfaults, hist, given, client, app>>

(***************************************************************************)
(* deleteModule: validate, existence check, DELETE.                        *)
(***************************************************************************)
DeleteModule(p, r) ==
    LET e == ValidateId(r.id)
    IN  IF e # NoError THEN End(p, r, Rejected("delete", e)) ELSE Go(p, "d_check", r)

\* DELETE /api/modules/:id
Delete(p, seg) ==
    /\ Begin(p)
    /\ LET id == ParseInt(seg)
           r == [NoReq EXCEPT !.op = "delete", !.seg = seg, !.id = id]
       IN  IF id.nan \/ id.n <= 0 THEN End(p, r, Fail(400, NoError, MsgIdRequired))
           ELSE DeleteModule(p, r)
    /\ UNCHANGED <<table, seq, clock, crashed, nfaults, given, client, app>>

\* SELECT id FROM modules WHERE id = ?
DeleteCheck(p) ==
    /\ At(p, "d_check")
    /\ IF req[p].id.n \notin DOMAIN table
       THEN End(p, req[p], Rejected("delete", MsgNotFound(req[p].id.n)))
       ELSE Go(p, "d_run", req[p])
    /\ UNCHANGED <<table, seq, clock, crashed, nops, nfaults, hist, given, client, app>>

\* the DELETE statement; this.changes === 0 rejects
DeleteRun(p) ==
    /\ At(p, "d_run")
    /\ LET id == req[p].id.n
       IN  IF id \in DOMAIN table
           THEN /\ table' = DeleteRow(table, id)
                /\ hist' = [hist EXCEPT !.deleted =
                              [k \in DOMAIN @ \cup {id} |-> IF k = id THEN clock ELSE @[k]]]
                /\ End(p, req[p], Ok(200, Null))
           ELSE /\ UNCHANGED <<table, hist>>
                /\ End(p, req[p], Rejected("delete", MsgDeleteIneffective))
    /\ UNCHANGED <<seq, clock, crashed, nops, nfaults, given, client, app>>

(***************************************************************************)
(* GET /api/modules.                                                       *)
(***************************************************************************)
Get(p) ==
    /\ Begin(p)
    /\ Go(p, "l_all", [NoReq EXCEPT !.op = "list"])
    /\ UNCHANGED <<table, seq, clock, crashed, nfaults, given, client, app>>

GetRun(p) ==
    /\ At(p, "l_all")
    /\ \E l \in GetAllModules(table) : End(p, req[p], Ok(200, l))
    /\ UNCHANGED <<table, seq, clock, crashed, nops, nfaults, hist, given, client, app>>

(***************************************************************************)
(* A statement fails in the storage engine: the callback gets err.         *)
(***************************************************************************)
StatementError(at) ==
    CASE at = "c_insert" -> MsgCreateFailed
      [] at = "c_read" -> MsgCreateUnread
      [] at = "u_check" -> MsgVerifyFailed
      [] at = "u_write" -> MsgUpdateFailed
      [] at = "u_read" -> MsgUpdateUnread
      [] at = "d_check" -> MsgVerifyFailed
      [] at = "d_run" -> MsgDeleteFailed
      [] OTHER -> MsgFetchFailed

\* a seeding loop that logs a failed create and goes on with the next default
StatementFailsSeedGoesOn(p) ==
    /\ ~crashed
    /\ pc[p] \notin {"idle", "done", "lost"}
    /\ nfaults < MaxFaults
    /\ nfaults' = nfaults + 1
    /\ IF req[p].op = "seed" /\ req[p].i \in 1..(DefaultCount - 1)
       THEN CreateModule(p, [req[p] EXCEPT !.i = @ + 1, !.data = DefaultModules[req[p].i + 1]])
       ELSE End(p, req[p], Rejected(req[p].op, StatementError(pc[p])))
    /\ UNCHANGED <<table, seq, clock, crashed, nops, hist, given, client, app>>

StatementFails(p) ==
    /\ ~crashed
    /\ pc[p] \notin {"idle", "done", "lost"}
    /\ nfaults < MaxFaults
    /\ nfaults' = nfaults + 1
    /\ End(p, req[p], Rejected(req[p].op, StatementError(pc[p])))
    /\ UNCHANGED <<table, seq, clock, crashed, nops, hist, given, client, app>>

(***************************************************************************)
(* The system: requests of every kind, their statements interleaved.       *)
(***************************************************************************)
Next ==
    \/ Tick
    \/ \E p \in Procs :
        \/ \E d \in DataSet : Post(p, d)
        \/ CreateInsert(p)
        \/ CreateRead(p)
        \/ Seed(p)
        \/ SeedCheck(p)
        \/ \E seg \in SegSet, d \in DataSet : Put(p, seg, d)
        \/ UpdateCheck(p)
        \/ UpdateWrite(p)
        \/ UpdateRead(p)
        \/ \E seg \in SegSet : Delete(p, seg)
        \/ DeleteCheck(p)
        \/ DeleteRun(p)
        \/ Get(p)
        \/ GetRun(p)

Spec == Init /\ [][Next]_vars

(***************************************************************************)
(* The same system on a storage engine whose statements may fail.          *)
(***************************************************************************)
NextFaulty == Next \/ \E p \in Procs : StatementFails(p)

SpecFaulty == Init /\ [][NextFaulty]_vars

(***************************************************************************)
(* One caller of the repository's createModule, for every shape of         *)
(* moduleData: each field absent, null, a number, empty, blank, padded.    *)
(***************************************************************************)
WideDataSet ==
    {NoData} \cup
    { Data(pr, e, k) :
        pr \in {Undef, Null, Num, Empty, Blank, Str(<<"p">>), Str(<<" ", "p", " ">>)},
        e \in {NoContent} \cup
              { Content(n, d, ph) :
                  n \in {Undef, Num, Empty, Blank, Str(<<"e">>), Str(<<" ", "e">>)},
                  d \in {Undef, Null, Empty, Blank, Str(<<"d">>)},
                  ph \in {Undef, Str(<<"x">>)} },
        k \in {NoContent} \cup
              { Content(n, d, ph) :
                  n \in {Undef, Blank, Str(<<"k">>), Str(<<"k", " ">>)},
                  d \in {Undef, Str(<<"d">>)},
                  ph \in {Undef, Empty, Str(<<"y">>)} } }

InitCreate == InitStore /\ given \in {[data |-> d, seg |-> <<>>] : d \in WideDataSet}

\* createModule(moduleData), called directly
CallCreate(p) ==
    /\ Begin(p)
    /\ CreateModule(p, [NoReq EXCEPT !.op = "create", !.data = given.data])
    /\ UNCHANGED <<table, seq, clock, crashed, nfaults, given, client, app>>

NextCreate ==
    \/ Tick
    \/ CallCreate("h1")
    \/ CreateInsert("h1")
    \/ CreateRead("h1")

SpecCreate == InitCreate /\ [][NextCreate]_vars

(***************************************************************************)
(* One caller running seedDatabase again and again on a store that starts  *)
(* empty, and listing the modules in between.                              *)
(***************************************************************************)
NextSeed ==
    \/ Tick
    \/ Seed("h1")
    \/ SeedCheck("h1")
    \/ CreateInsert("h1")
    \/ CreateRead("h1")
    \/ Get("h1")
    \/ GetRun("h1")

SpecSeed == Init /\ [][NextSeed]_vars

(***************************************************************************)
(* PUT and DELETE for every shape of the :id path segment, one request at  *)
(* a time, on a store that seeding fills.                                  *)
(***************************************************************************)
MaxSegLen == 2

SegAlphabet == {"0", "1", "a", "-", "."}

WideSegSet ==
    UNION {[1..n -> SegAlphabet] : n \in 1..MaxSegLen} \cup {<<"1", ".", "5">>, <<" ", "1">>}

ValidData == {d \in DataSet : ValidateData(d) = NoError}

InitRoute ==
    InitStore /\ given \in {[data |-> d, seg |-> g] : d \in ValidData, g \in WideSegSet}

NextRoute ==
    \/ Tick
    \/ Seed("h1")
    \/ SeedCheck("h1")
    \/ CreateInsert("h1")
    \/ CreateRead("h1")
    \/ Put("h1", given.seg, given.data)
    \/ UpdateCheck("h1")
    \/ UpdateWrite("h1")
    \/ UpdateRead("h1")
    \/ Delete("h1", given.seg)
    \/ DeleteCheck("h1")
    \/ DeleteRun("h1")

SpecRoute == InitRoute /\ [][NextRoute]_vars

(***************************************************************************)
(* Two PUTs with different prompts on one existing module, both past the   *)
(* synchronous part of updateModule, their statements in any order.        *)
(***************************************************************************)
UpdateRequest(id, d) ==
    [NoReq EXCEPT !.op = "update", !.seg = <<Digits[id + 1]>>, !.id = Number(id), !.data = d]

InitRace ==
    \E d0 \in ValidData, d1 \in ValidData, d2 \in ValidData :
        /\ Params(d1).prompt # Params(d2).prompt
        /\ table = InsertRow(<<>>, 1, Params(d0), 0)
        /\ seq = 1
        /\ clock \in 0..MaxClock
        /\ pc = [p \in Procs |-> "u_check"]
        /\ req = [p \in Procs |-> UpdateRequest(1, IF p = "h1" THEN d1 ELSE d2)]
        /\ out = [p \in Procs |-> Pending]
        /\ crashed = FALSE
        /\ nops = 3
        /\ nfaults = 0
        /\ hist = [NoHistory EXCEPT !.issued = <<1>>]
        /\ given = NoInput
        /\ client = NoClient
        /\ app = NoApp

NextRace ==
    \/ Tick
    \/ \E p \in Procs :
        \/ UpdateCheck(p)
        \/ UpdateWrite(p)
        \/ UpdateRead(p)

SpecRace == InitRace /\ [][NextRace]_vars

(***************************************************************************)
(* Process start: startServer awaits initializeDatabaseWithSeeding (schema *)
(* creation, then seedDatabase) and only then calls app.listen; when the   *)
(* awaited call rejects it exits. Handler h1 is the start routine, h2 the  *)
(* HTTP listener, closed until app.listen. The database file may hold a    *)
(* module of an earlier run.                                               *)
(***************************************************************************)
MsgEngine == <<"SQLITE_ERROR">>

InitStart ==
    \E d \in ValidData, n \in 0..1 :
        /\ table = IF n = 0 THEN <<>> ELSE InsertRow(<<>>, 1, Params(d), 0)
        /\ seq = n
        /\ clock = 0
        /\ pc = [p \in Procs |-> IF p = "h1" THEN "b_schema" ELSE "closed"]
        /\ req = [p \in Procs |-> NoReq]
        /\ out = [p \in Procs |-> Pending]
        /\ crashed = FALSE
        /\ nops = 0
        /\ nfaults = 0
        /\ hist = NoHistory
        /\ given = NoInput
        /\ client = NoClient
        /\ app = NoApp

\* CREATE TABLE IF NOT EXISTS succeeds; seedDatabase is called next
InitializeDatabase(p) ==
    /\ At(p, "b_schema")
    /\ Go(p, "s_check", [NoReq EXCEPT !.op = "seed"])
    /\ UNCHANGED <<table, seq, clock, crashed, nops, nfaults, hist, given, client, app>>

\* CREATE TABLE fails: initializeDatabase rejects with the engine's error
InitializeDatabaseFails(p) ==
    /\ At(p, "b_schema")
    /\ nfaults < MaxFaults
    /\ nfaults' = nfaults + 1
    /\ End(p, req[p], Fail(0, MsgEngine, NoError))
    /\ UNCHANGED <<table, seq, clock, crashed, nops, hist, given, client, app>>

\* a start that calls app.listen without awaiting the initialization
ListenUnawaited(p, q) ==
    /\ ~crashed
    /\ pc[q] = "closed"
    /\ pc' = [pc EXCEPT ![q] = "idle"]
    /\ UNCHANGED <<table, seq, clock, req, out, crashed, nops, nfaults, hist, given, client, app>>

\* the awaited initialization has resolved: app.listen
Listen(p, q) ==
    /\ ~crashed
    /\ pc[p] = "done"
    /\ out[p].kind = "ok"
    /\ pc[q] = "closed"
    /\ pc' = [pc EXCEPT ![q] = "idle"]
    /\ UNCHANGED <<table, seq, clock, req, out, crashed, nops, nfaults, hist, given, client, app>>

\* the awaited initialization has rejected: process.exit(1)
Exit(p) ==
    /\ ~crashed
    /\ pc[p] = "done"
    /\ out[p].kind = "err"
    /\ crashed' = TRUE
    /\ UNCHANGED <<table, seq, clock, pc, req, out, nops, nfaults, hist, given, client, app>>

NextStart ==
    \/ Tick
    \/ InitializeDatabase("h1")
    \/ InitializeDatabaseFails("h1")
    \/ SeedCheck("h1")
    \/ CreateInsert("h1")
    \/ CreateRead("h1")
    \/ StatementFails("h1")
    \/ Listen("h1", "h2")
    \/ Exit("h1")
    \/ \E d \in DataSet : Post("h2", d)
    \/ CreateInsert("h2")
    \/ CreateRead("h2")
    \/ Get("h2")
    \/ GetRun("h2")

SpecStart == InitStart /\ [][NextStart]_vars

(***************************************************************************)
(* The seeding caller on a storage engine whose statements may fail.       *)
(***************************************************************************)
NextSeedFaulty ==
    \/ NextSeed
    \/ StatementFails("h1")

SpecSeedFaulty == Init /\ [][NextSeedFaulty]_vars

(***************************************************************************)
(* One call of the client API module, for every argument and for every     *)
(* outcome of its fetch.                                                   *)
(***************************************************************************)
ClientIds == {NaN, Number(0 - 1), Number(0), Fraction(0), Number(1), Fraction(1), Number(2)}

ClientDataSet ==
    {NoData} \cup
    { Data(pr, e, k) :
        pr \in {Undef, Null, Num, Empty, Blank, Str(<<"p">>), Str(<<" ", "p", " ">>)},
        e \in {NoContent} \cup
              { Content(n, Undef, Undef) :
                  n \in {Undef, Null, Num, Empty, Blank, Str(<<"e">>)} },
        k \in {NoContent} \cup
              { Content(n, Str(<<"d">>), Undef) :
                  n \in {Undef, Num, Blank, Str(<<"k">>)} } }

SampleModule == ToModule(Row(1, Params(DefaultModules[1]), 0, 0))

FetchOutcomes ==
    { FetchRejects(type, text) :
        type \in {"TypeError", "Error", "none"},
        text \in {<<"Failed", "to", "fetch">>, <<"Load", "failed">>} }
    \cup
    { Response(status, <<"Status">>, body) :
        status \in {200, 404, 500},
        body \in {Unparseable, JsonNull} \cup
                 { Envelope(success, error, data) :
                     success \in BOOLEAN,
                     error \in {Undef, Empty, Str(<<"Oops">>)},
                     data \in {NoValue, NullValue, Entity(SampleModule), List(<<SampleModule>>)} } }

\* a call of the client: it throws what its validation found, or it calls
\* apiRequest, which calls fetch
ClientCall(call, id, d, e) ==
    /\ client.pc = "idle"
    /\ client' = IF e.type # "none"
                 THEN [NoClient EXCEPT !.pc = "done", !.call = call, !.id = id, !.data = d,
                                       !.out = Throws(e)]
                 ELSE [NoClient EXCEPT !.pc = "fetching", !.call = call, !.id = id, !.data = d,
                                       !.fetches = 1]
    /\ UNCHANGED <<table, seq, clock, pc, req, out, crashed, nops, nfaults, hist, given, app>>

FetchModules == ClientCall("fetchModules", NaN, NoData, NoThrow)

ClientCreateModule(d) == ClientCall("createModule", NaN, d, ClientValidateData(d))

ClientUpdateModule(id, d) ==
    ClientCall("updateModule", id, d,
               IF ClientValidateId(id).type # "none" THEN ClientValidateId(id)
               ELSE ClientValidateData(d))

ClientDeleteModule(id) == ClientCall("deleteModule", id, NoData, ClientValidateId(id))

\* fetch settles and the call ends
Fetch(o) ==
    /\ client.pc = "fetching"
    /\ client' = [client EXCEPT
                    !.pc = "done",
                    !.got = o,
                    !.out = CASE client.call = "fetchModules" -> FetchModulesResult(o)
                              [] client.call = "deleteModule" -> DeleteResult(o)
                              [] OTHER -> EntityResult(o)]
    /\ UNCHANGED <<table, seq, clock, pc, req, out, crashed, nops, nfaults, hist, given, app>>

NextClient ==
    \/ FetchModules
    \/ \E d \in ClientDataSet : ClientCreateModule(d)
    \/ \E id \in ClientIds, d \in ClientDataSet : ClientUpdateModule(id, d)
    \/ \E id \in ClientIds : ClientDeleteModule(id)
    \/ \E o \in FetchOutcomes : Fetch(o)

SpecClient == Init /\ [][NextClient]_vars

(***************************************************************************)
(* One store over several server starts: the first seeding is done and     *)
(* some of its defaults have been deleted since; from here on (requests    *)
(* are counted from this state) one caller seeds, creates, updates,        *)
(* deletes and lists, one operation at a time.                             *)
(***************************************************************************)
InitSeeded ==
    \E S \in SUBSET (1..DefaultCount) :
        /\ S # {}
        /\ table = [k \in S |-> Row(k, Params(DefaultModules[k]), 0, 0)]
        /\ seq = DefaultCount
        /\ clock = 0
        /\ pc = [p \in Procs |-> "idle"]
        /\ req = [p \in Procs |-> NoReq]
        /\ out = [p \in Procs |-> Pending]
        /\ crashed = FALSE
        /\ nops = 0
        /\ nfaults = 0
        /\ hist = [NoHistory EXCEPT
                     !.issued = [k \in 1..DefaultCount |-> k],
                     !.deleted = [k \in (1..DefaultCount) \ S |-> 0]]
        /\ given = NoInput
        /\ client = NoClient
        /\ app = NoApp

NextSeeded ==
    \/ Tick
    \/ Seed("h1")
    \/ SeedCheck("h1")
    \/ \E d \in DataSet : Post("h1", d)
    \/ CreateInsert("h1")
    \/ CreateRead("h1")
    \/ \E seg \in SegSet, d \in DataSet : Put("h1", seg, d)
    \/ UpdateCheck("h1")
    \/ UpdateWrite("h1")
    \/ UpdateRead("h1")
    \/ \E seg \in SegSet : Delete("h1", seg)
    \/ DeleteCheck("h1")
    \/ DeleteRun("h1")
    \/ Get("h1")
    \/ GetRun("h1")

SpecSeeded == InitSeeded /\ [][NextSeeded]_vars

(***************************************************************************)
(* The App component over a seeded store, in admin mode, its list loaded   *)
(* on mount. The Sidebar opens the modals and calls handleDeleteModule and *)
(* handleSelectModule unless moduleOperationLoading is set; an open modal  *)
(* calls its onAdd or onEdit. A handler awaits the client API call; the    *)
(* server serves the request of that call in one step.                     *)
(***************************************************************************)
InitApp ==
    /\ table = [k \in 1..DefaultCount |-> Row(k, Params(DefaultModules[k]), 0, 0)]
    /\ seq = DefaultCount
    /\ clock = 0
    /\ pc = [p \in Procs |-> "idle"]
    /\ req = [p \in Procs |-> NoReq]
    /\ out = [p \in Procs |-> Pending]
    /\ crashed = FALSE
    /\ nops = 0
    /\ nfaults = 0
    /\ hist = [NoHistory EXCEPT !.issued = [k \in 1..DefaultCount |-> k]]
    /\ given = NoInput
    /\ client = NoClient
    /\ \E l \in GetAllModules(table) :
          /\ \A i \in 1..Len(l) : l[i].id = i
          /\ app = [NoApp EXCEPT !.state.modules = [i \in 1..Len(l) |-> WithDates(l[i])]]

ModuleIds(modules) == {modules[i].id : i \in 1..Len(modules)}
SelectedId(state) == IF state.selectedModule = Null THEN 0 ELSE state.selectedModule.id

\* the response of POST /api/modules, PUT and DELETE /api/modules/:id to a
\* request of the client, and the table the request leaves
ServeCreate(t, s, now, d) ==
    IF ValidateData(d) # NoError
    THEN [table |-> t, seq |-> s,
          response |-> Response(400, <<"Bad", "Request">>,
                                Envelope(FALSE, Str(ValidateData(d)), NoValue))]
    ELSE LET id == NextRowId(t, s)
             t2 == InsertRow(t, id, Params(d), now)
         IN  [table |-> t2, seq |-> id,
              response |-> Response(201, <<"Created">>,
                                    Envelope(TRUE, Undef, Entity(ToModule(t2[id]))))]

ServeUpdate(t, now, id, d) ==
    IF ValidateData(d) # NoError
    THEN [table |-> t,
          response |-> Response(400, <<"Bad", "Request">>,
                                Envelope(FALSE, Str(ValidateData(d)), NoValue))]
    ELSE IF id \notin DOMAIN t
    THEN [table |-> t,
          response |-> Response(404, <<"Not", "Found">>,
                                Envelope(FALSE, Str(MsgNotFound(id)), NoValue))]
    ELSE LET t2 == UpdateRow(t, id, Params(d), now)
         IN  [table |-> t2,
              response |-> Response(200, <<"OK">>,
                                    Envelope(TRUE, Undef, Entity(ToModule(t2[id]))))]

ServeDelete(t, id) ==
    IF id \notin DOMAIN t
    THEN [table |-> t,
          response |-> Response(404, <<"Not", "Found">>,
                                Envelope(FALSE, Str(MsgNotFound(id)), NoValue))]
    ELSE [table |-> DeleteRow(t, id),
          response |-> Response(200, <<"OK">>, Envelope(TRUE, Undef, NoValue))]

\* the Sidebar: a click on a module, on Add, on the pencil of a module
HandleSelectModule(i) ==
    /\ ~app.moduleOperationLoading
    /\ i \in 1..Len(app.state.modules)
    /\ app' = [app EXCEPT !.state.selectedModule = app.state.modules[i]]
    /\ UNCHANGED <<table, seq, clock, pc, req, out, crashed, nops, nfaults, hist, given, client>>

OnAddModule ==
    /\ ~app.moduleOperationLoading
    /\ ~app.modals.addModule
    /\ app' = [app EXCEPT !.modals.addModule = TRUE]
    /\ UNCHANGED <<table, seq, clock, pc, req, out, crashed, nops, nfaults, hist, given, client>>

OnEditModule(i) ==
    /\ ~app.moduleOperationLoading
    /\ i \in 1..Len(app.state.modules)
    /\ app' = [app EXCEPT !.modals.editModule = TRUE,
                          !.modals.editingModule = app.state.modules[i]]
    /\ UNCHANGED <<table, seq, clock, pc, req, out, crashed, nops, nfaults, hist, given, client>>

\* onClose of the two modals
CloseAddModal ==
    /\ app.modals.addModule
    /\ app' = [app EXCEPT !.modals.addModule = FALSE]
    /\ UNCHANGED <<table, seq, clock, pc, req, out, crashed, nops, nfaults, hist, given, client>>

CloseEditModal ==
    /\ app.modals.editModule
    /\ app' = [app EXCEPT !.modals.editModule = FALSE, !.modals.editingModule = Null]
    /\ UNCHANGED <<table, seq, clock, pc, req, out, crashed, nops, nfaults, hist, given, client>>

\* a handler starts: it sets the loading flag, clears the error and awaits
\* the client API call; `state` is the one of the render it was made in
Handle(u, op, id, d) ==
    /\ app.run[u].pc = "idle"
    /\ app.started < MaxOps
    /\ app' = [app EXCEPT
                 !.moduleOperationLoading = TRUE,
                 !.moduleOperationError = FALSE,
                 !.run[u] = [pc |-> "awaiting", op |-> op, id |-> id, data |-> d,
                             state |-> app.state],
                 !.started = @ + 1,
                 !.log.overlapped =
                     @ \/ \E v \in Handlers \ {u} : app.run[v].pc = "awaiting"]
    /\ UNCHANGED <<table, seq, clock, pc, req, out, crashed, nops, nfaults, hist, given, client>>

HandleAddModule(u, d) ==
    /\ app.modals.addModule
    /\ Handle(u, "add", 0, d)

HandleEditModule(u, d) ==
    /\ app.modals.editModule
    /\ Handle(u, "edit", app.modals.editingModule.id, d)

HandleDeleteModule(u, i) ==
    /\ ~app.moduleOperationLoading
    /\ i \in 1..Len(app.state.modules)
    /\ Handle(u, "delete", app.state.modules[i].id, NoData)

\* the catch block of a handler
Caught(u) ==
    [app EXCEPT !.moduleOperationError = TRUE,
                !.moduleOperationLoading = FALSE,
                !.run[u] = NoRun]

\* updateState(updates) after the awaited call, then the loading flag
Then(u, modules, selectedModule) ==
    [app EXCEPT !.state.modules = modules,
                !.state.selectedModule = selectedModule,
                !.moduleOperationLoading = FALSE,
                !.run[u] = NoRun,
                !.log.succeeded = @ + 1]

\* createModule settles: [...state.modules, newModule]
AddSettles(u) ==
    /\ app.run[u].pc = "awaiting"
    /\ app.run[u].op = "add"
    /\ LET run == app.run[u]
           e == ClientValidateData(run.data)
           served == ServeCreate(table, seq, clock, run.data)
           o == IF e.type # "none" THEN Throws(e) ELSE EntityResult(served.response)
       IN  IF o.kind = "throws"
           THEN /\ app' = Caught(u)
                /\ UNCHANGED <<table, seq, hist>>
           ELSE /\ table' = served.table
                /\ seq' = served.seq
                /\ hist' = [hist EXCEPT !.issued = Append(@, served.seq)]
                /\ app' = [Then(u, Append(run.state.modules, o.val.v),
                                app.state.selectedModule)
                             EXCEPT !.log.added = @ \cup {o.val.v.id}]
    /\ UNCHANGED <<clock, pc, req, out, crashed, nops, nfaults, given, client>>

\* updateModule settles: state.modules.map(...) and the selected module
EditSettles(u) ==
    /\ app.run[u].pc = "awaiting"
    /\ app.run[u].op = "edit"
    /\ LET run == app.run[u]
           e == ClientValidateData(run.data)
           served == ServeUpdate(table, clock, run.id, run.data)
           o == IF e.type # "none" THEN Throws(e) ELSE EntityResult(served.response)
       IN  IF o.kind = "throws"
           THEN /\ app' = Caught(u)
                /\ UNCHANGED table
           ELSE /\ table' = served.table
                /\ app' = Then(u,
                               [i \in 1..Len(run.state.modules) |->
                                   IF run.state.modules[i].id = run.id THEN o.val.v
                                   ELSE run.state.modules[i]],
                               IF SelectedId(run.state) = run.id THEN o.val.v
                               ELSE run.state.selectedModule)
    /\ UNCHANGED <<seq, clock, pc, req, out, crashed, nops, nfaults, hist, given, client>>

\* deleteModule settles: state.modules.filter(...) and the selected module
DeleteSettles(u) ==
    /\ app.run[u].pc = "awaiting"
    /\ app.run[u].op = "delete"
    /\ LET run == app.run[u]
           served == ServeDelete(table, run.id)
           o == DeleteResult(served.response)
       IN  IF o.kind = "throws"
           THEN /\ app' = Caught(u)
                /\ UNCHANGED table
           ELSE /\ table' = served.table
                /\ app' = [Then(u,
                                SelectSeq(run.state.modules, LAMBDA m : m.id # run.id),
                                IF SelectedId(run.state) = run.id THEN Null
                                ELSE run.state.selectedModule)
                             EXCEPT !.log.deleted = @ \cup {run.id}]
    /\ UNCHANGED <<seq, clock, pc, req, out, crashed, nops, nfaults, hist, given, client>>

\* the rows of the Sidebar that are clicked, and what the modals submit
AppRows == 1..2
AppDataSet == {d \in DataSet : d.prompt = Str(<<"p">>)}

NextApp ==
    \/ \E i \in AppRows : HandleSelectModule(i)
    \/ OnAddModule
    \/ \E i \in AppRows : OnEditModule(i)
    \/ CloseAddModal
    \/ CloseEditModal
    \/ \E u \in Handlers, d \in AppDataSet : HandleAddModule(u, d)
    \/ \E u \in Handlers, d \in AppDataSet : HandleEditModule(u, d)
    \/ \E u \in Handlers, i \in AppRows : HandleDeleteModule(u, i)
    \/ \E u \in Handlers : AddSettles(u)
    \/ \E u \in Handlers : EditSettles(u)
    \/ \E u \in Handlers : DeleteSettles(u)

SpecApp == InitApp /\ [][NextApp]_vars

(***************************************************************************)
(* Properties.                                                             *)
(***************************************************************************)
Created(p) == pc[p] = "done" /\ req[p].op = "create" /\ out[p].kind = "ok"
Updated(p) == pc[p] = "done" /\ req[p].op = "update" /\ out[p].kind = "ok"
Seeded(p) == pc[p] = "done" /\ req[p].op = "seed" /\ out[p].kind = "ok"

NoDuplicates(sq) == \A i, j \in 1..Len(sq) : i # j => sq[i] # sq[j]

\* C1: every successful create returns a positive integer id that no earlier
\* successful create has returned, whether or not that module still exists.
C1_IdsNeverReissued ==
    /\ NoDuplicates(hist.issued)
    /\ \A i \in 1..Len(hist.issued) : hist.issued[i] \in Nat \ {0}
    /\ \A p \in Procs : Created(p) => out[p].val.id \in Nat \ {0}

\* a create has returned the id that follows a deleted one, and its row was
\* inserted after that delete
C1_Witness ==
    \E id \in DOMAIN table, d \in DOMAIN hist.deleted :
        /\ id = d + 1
        /\ hist.deleted[d] < table[id].created_at
        /\ \E i \in 1..Len(hist.issued) : hist.issued[i] = id

\* C2 as stated: after a successful update the module's updatedAt is strictly
\* greater than before it.
C2_StrictlyLater ==
    \A p \in Procs :
        Updated(p) /\ hist.upd[p].hit =>
            hist.upd[p].after.updated_at > hist.upd[p].before.updated_at

\* C2 as amended: a successful update sets updatedAt to the second of its
\* UPDATE statement, which is not earlier than the updatedAt before it (and
\* equal to it when both writes fall in one second).
C2_NotEarlier ==
    \A p \in Procs :
        Updated(p) =>
            /\ hist.upd[p].hit
            /\ hist.upd[p].after.updated_at = hist.upd[p].at
            /\ hist.upd[p].after.updated_at >= hist.upd[p].before.updated_at

\* an update has succeeded in a later second than the write before it
C2_Witness ==
    \E p \in Procs :
        /\ Updated(p)
        /\ hist.upd[p].hit
        /\ hist.upd[p].after.updated_at > hist.upd[p].before.updated_at

\* C3: a successful update leaves the module's id and createdAt as they were,
\* in the row and in the entity it returns.
C3_IdAndCreatedAtKept ==
    \A p \in Procs :
        Updated(p) =>
            /\ hist.upd[p].hit
            /\ hist.upd[p].after.id = hist.upd[p].before.id
            /\ hist.upd[p].after.created_at = hist.upd[p].before.created_at
            /\ out[p].val.id = hist.upd[p].before.id
            /\ out[p].val.id = req[p].id.n
            /\ out[p].val.createdAt = hist.upd[p].before.created_at

\* an update has succeeded in a later second than the create and has changed
\* the prompt
C3_Witness ==
    \E p \in Procs :
        /\ Updated(p)
        /\ hist.upd[p].hit
        /\ hist.upd[p].at > hist.upd[p].before.created_at
        /\ hist.upd[p].after.prompt # hist.upd[p].before.prompt

\* C4: once a delete of an id has succeeded, neither getModuleById nor any
\* listing returns a module with that id, whatever else runs.
C4_DeletedStaysGone ==
    \A id \in DOMAIN hist.deleted :
        /\ GetModuleById(table, id) = Null
        /\ \A l \in GetAllModules(table) : \A i \in 1..Len(l) : l[i].id # id

\* an update that had passed its existence check ran its UPDATE after the
\* delete of its id
C4_Witness ==
    \E p \in Procs :
        /\ pc[p] = "u_read"
        /\ req[p].id.n \in DOMAIN hist.deleted
        /\ ~hist.upd[p].hit

\* C5: seeding an empty store leaves exactly the default count of modules;
\* a seeding call that finds them returns an empty list and changes nothing.
C5_SeedTwice ==
    /\ [](Seeded("h1") =>
            /\ Cardinality(DOMAIN table) = DefaultCount
            /\ (out["h1"].val = <<>> \/ Len(out["h1"].val) = DefaultCount))
    /\ [][(pc["h1"] = "s_check" /\ pc'["h1"] # "s_check" /\ table # <<>>) =>
            (pc'["h1"] = "done" /\ out'["h1"] = Ok(0, <<>>) /\ table' = table)]_vars

\* the second seeding call has returned
C5_Witness ==
    /\ Seeded("h1")
    /\ out["h1"].val = <<>>
    /\ Cardinality(DOMAIN table) = DefaultCount
    /\ Len(hist.issued) = DefaultCount

ContentOf(m) == [prompt |-> m.prompt, en |-> m.en, kn |-> m.kn]

NonBlank(s) == {i \in 1..Len(s) : s[i] # " "}
SetMin(S) == CHOOSE x \in S : \A y \in S : x <= y
Stripped(s) == IF NonBlank(s) = {} THEN <<>> ELSE SubSeq(s, SetMin(NonBlank(s)), SetMax(NonBlank(s)))

Absent(x) == x.t \in {"undefined", "null"} \/ (x.t = "string" /\ x.v = <<>>)
NullIfAbsent(x) == IF Absent(x) THEN Null ELSE x

\* the content of the request as it was given, absent or empty optional
\* fields read as null
AsGiven(d) ==
    [prompt |-> d.prompt,
     en |-> [name |-> d.en.name,
             description |-> NullIfAbsent(d.en.description),
             inputPlaceholder |-> NullIfAbsent(d.en.inputPlaceholder)],
     kn |-> [name |-> d.kn.name,
             description |-> NullIfAbsent(d.kn.description),
             inputPlaceholder |-> NullIfAbsent(d.kn.inputPlaceholder)]]

\* the same with prompt and names stripped of leading and trailing blanks
AsStripped(d) ==
    [AsGiven(d) EXCEPT !.prompt = Str(Stripped(d.prompt.v)),
                       !.en.name = Str(Stripped(d.en.name.v)),
                       !.kn.name = Str(Stripped(d.kn.name.v))]

\* no UPDATE has changed the row of this id
Unwritten(id) == id \notin DOMAIN hist.writes

\* the entity create returned, and what getModuleById and every listing
\* return for its id while the row is there, have the content `want`
ReadsBack(p, want) ==
    LET id == out[p].val.id
    IN  /\ ContentOf(out[p].val) = want
        /\ id \in DOMAIN table =>
            /\ ContentOf(GetModuleById(table, id)) = want
            /\ \A l \in GetAllModules(table) :
                 \A i \in 1..Len(l) : l[i].id = id => ContentOf(l[i]) = want

\* C6 as stated: the entity create returns and a read that follows have
\* prompt, en and kn identical to the input, absent or empty description and
\* inputPlaceholder reading back as null.
C6_ReadsBackAsGiven ==
    \A p \in Procs :
        Created(p) /\ Unwritten(out[p].val.id) => ReadsBack(p, AsGiven(req[p].data))

\* C6 as amended: they are the input with prompt, en.name and kn.name
\* trimmed, absent or empty description and inputPlaceholder reading back as
\* null, as long as no update has written the module.
C6_ReadsBackTrimmed ==
    \A p \in Procs :
        Created(p) /\ Unwritten(out[p].val.id) => ReadsBack(p, AsStripped(req[p].data))

\* a create with a padded prompt has returned and its row is still as inserted
C6_Witness ==
    \E p \in Procs :
        /\ Created(p)
        /\ Unwritten(out[p].val.id)
        /\ out[p].val.id \in DOMAIN table
        /\ req[p].data.prompt.v # Stripped(req[p].data.prompt.v)
        /\ Absent(req[p].data.en.inputPlaceholder)

Usable(x) == x.t = "string" /\ NonBlank(x.v) # {}
PromptGiven(d) == Usable(d.prompt)
EnglishGiven(d) == d.en.obj /\ Usable(d.en.name)
KannadaGiven(d) == d.kn.obj /\ Usable(d.kn.name)

\* C7: createModule rejects with the error of the first of prompt, English
\* name, Kannada name that is missing or blank, and accepts when none is.
C7_FirstMissingFieldWins ==
    LET d == given.data
        done == pc["h1"] = "done"
        e == out["h1"].err
    IN  d.obj /\ req["h1"].op = "create" =>
            /\ ~PromptGiven(d) => done /\ e = MsgPromptRequired
            /\ PromptGiven(d) /\ ~EnglishGiven(d) => done /\ e = MsgEnglishRequired
            /\ PromptGiven(d) /\ EnglishGiven(d) /\ ~KannadaGiven(d) =>
                    done /\ e = MsgKannadaRequired
            /\ PromptGiven(d) /\ EnglishGiven(d) /\ KannadaGiven(d) =>
                    out["h1"].kind # "err"

\* a body with a prompt and with neither name is rejected for the English name
C7_Witness ==
    /\ pc["h1"] = "done"
    /\ out["h1"].err = MsgEnglishRequired
    /\ PromptGiven(given.data)
    /\ ~EnglishGiven(given.data)
    /\ ~KannadaGiven(given.data)

\* C8: an update that passed validation and whose existence check finds no
\* row ends there with not-found, answered 404 with success false, and the
\* table is as it was.
C8_AbsentRowNotFound ==
    [][\A p \in Procs :
         (pc[p] = "u_check" /\ pc'[p] # "u_check" /\ req[p].id.n \notin DOMAIN table) =>
            /\ pc'[p] = "done"
            /\ out'[p].kind = "err"
            /\ out'[p].status = 404
            /\ out'[p].err = MsgNotFound(req[p].id.n)
            /\ out'[p].body = out'[p].err
            /\ table' = table]_vars

\* an update of an id without a row was answered 404 on a table that has rows
C8_Witness ==
    \E p \in Procs :
        /\ pc[p] = "done"
        /\ req[p].op = "update"
        /\ out[p].status = 404
        /\ req[p].id.n \notin DOMAIN table
        /\ table # <<>>

\* the segment after its leading blanks
Lead(g) == IF NonBlank(g) = {} THEN <<>> ELSE SubSeq(g, SetMin(NonBlank(g)), Len(g))

\* the segment does not begin with a number
NonNumeric(g) ==
    ~(/\ Lead(g) # <<>>
      /\ \/ IsDigit(Lead(g)[1])
         \/ Lead(g)[1] \in {"-", "+"} /\ Len(Lead(g)) >= 2 /\ IsDigit(Lead(g)[2]))

\* the segment is the decimal form of zero or of a negative integer
ZeroOrNegative(g) ==
    /\ g # <<>>
    /\ \/ \A i \in 1..Len(g) : g[i] = "0"
       \/ g[1] = "-" /\ Len(g) >= 2 /\ \A i \in 2..Len(g) : IsDigit(g[i])

C10_LastUpdateWins ==
    /\ \A p \in Procs : pc[p] # "lost" /\ out[p].kind # "err"
    /\ (\A p \in Procs : pc[p] = "done") =>
          /\ \A p \in Procs : out[p].kind = "ok" /\ out[p].status = 200
          /\ 1 \in DOMAIN hist.writes
          /\ LET w == hist.writes[1]
             IN  /\ table[1].prompt = Str(Stripped(req[w].data.prompt.v))
                 /\ table[1].updated_at = hist.upd[w].at

\* both updates are done, the second UPDATE ran in a later second than the
\* first, and the update that returned the other one's prompt wrote first
C10_Witness ==
    /\ \A p \in Procs : pc[p] = "done"
    /\ hist.writes[1] = "h1"
    /\ hist.upd["h1"].at > hist.upd["h2"].at
    /\ out["h2"].val.prompt = table[1].prompt

Listed(p) == pc[p] = "done" /\ req[p].op = "list" /\ out[p].kind = "ok"

\* the modules of a list are newest first: the one created later (the larger
\* id) comes before the one created earlier
NewestFirst(l) == \A i, j \in 1..Len(l) : i < j => l[i].id > l[j].id

\* C11: list() returns the modules newest first: whenever a was created
\* before b and both exist, b comes before a in the result; on a freshly
\* seeded store these are the defaults in reverse creation order.
C11_NewestFirst == \A p \in Procs : Listed(p) => NewestFirst(out[p].val)

\* the content of default module i as seeding stores it
DefaultContent(i) == ContentOf(ToModule(Row(0, Params(DefaultModules[i]), 0, 0)))

\* C12: after seeding an empty store, getAllModules() returns the defaults in
\* the order of the defaultModules array: element i has the prompt, en and
\* kn of defaultModules[i].
C12_SeededListInArrayOrder ==
    (Listed("h1") /\ Len(hist.issued) = DefaultCount) =>
        /\ Len(out["h1"].val) = DefaultCount
        /\ \A i \in 1..DefaultCount : ContentOf(out["h1"].val[i]) = DefaultContent(i)

Deleted(p) == pc[p] = "done" /\ req[p].op = "delete" /\ out[p].kind = "ok"

\* the DELETE of p is pending and q is deleting the same id: q's DELETE is
\* pending too, or it has run after the existence check of p
Overlapping(p, q) ==
    /\ p # q
    /\ pc[p] = "d_run"
    /\ req[q].op = "delete"
    /\ req[q].id = req[p].id
    /\ (pc[q] = "d_run" \/ Deleted(q))

\* C13: when two deletes of one existing id overlap so that both existence
\* checks pass before either DELETE runs, exactly one succeeds; the other
\* fails with the delete-ineffective error, which is not the not-found error
\* and is answered with status 500, not 404.
C13_OverlappingDeletes ==
    /\ [](\A p, q \in Procs :
            (p # q /\ Deleted(p) /\ Deleted(q)) => req[p].id # req[q].id)
    /\ [][\A p, q \in Procs :
            (Overlapping(p, q) /\ pc'[p] # "d_run") =>
                IF pc[q] = "d_run"
                THEN /\ out'[p] = Ok(200, Null)
                     /\ req[p].id.n \notin DOMAIN table'
                     /\ pc'[q] = "d_run"
                ELSE /\ out'[p] = Fail(500, MsgDeleteIneffective, MsgHttpDelete)
                     /\ ~Includes(out'[p].err, <<"not", "found">>)
                     /\ table' = table]_vars

\* both deletes have returned: one succeeded, the other found no row to
\* delete after its existence check had passed
C13_Witness ==
    \E p, q \in Procs :
        /\ Deleted(p)
        /\ pc[q] = "done"
        /\ req[q].op = "delete"
        /\ req[q].id = req[p].id
        /\ out[q].err = MsgDeleteIneffective
        /\ out[q].status = 500

\* the repository's errors by kind, as the repository raises them
ValidationErrors ==
    {MsgDataRequired, MsgPromptRequired, MsgEnglishRequired, MsgKannadaRequired, MsgIdRequired}
NotFoundErrors == {MsgNotFound(id) : id \in 1..(MaxId + 1)}
OtherErrors ==
    {MsgCreateFailed, MsgCreateUnread, MsgVerifyFailed, MsgUpdateFailed, MsgUpdateUnread,
     MsgDeleteFailed, MsgDeleteIneffective}

GenericMessage(op) ==
    CASE op = "create" -> MsgHttpCreate
      [] op = "update" -> MsgHttpUpdate
      [] OTHER -> MsgHttpDelete

\* the repository has rejected the POST, PUT or DELETE of p
Refused(p) ==
    /\ pc[p] = "done"
    /\ req[p].op \in {"create", "update", "delete"}
    /\ out[p].kind = "err"
    /\ out[p].err # NoError

\* C14: POST, PUT and DELETE answer every repository validation error with
\* 400 and the validation message, every not-found error with 404, and every
\* other repository error with 500 and a fixed generic message that does not
\* contain the repository's error text.
C14_ErrorsToStatus ==
    \A p \in Procs :
        Refused(p) =>
            /\ out[p].err \in ValidationErrors \cup NotFoundErrors \cup OtherErrors
            /\ out[p].err \in ValidationErrors =>
                 out[p].status = 400 /\ out[p].body = out[p].err
            /\ out[p].err \in NotFoundErrors =>
                 out[p].status = 404 /\ out[p].body = out[p].err
            /\ out[p].err \in OtherErrors =>
                 /\ out[p].status = 500
                 /\ out[p].body = GenericMessage(req[p].op)
                 /\ ~Includes(out[p].body, out[p].err)

\* one request was refused for a missing field and another because a
\* statement failed in the storage engine
C14_Witness ==
    \E p, q \in Procs :
        /\ Refused(p) /\ out[p].err = MsgEnglishRequired /\ out[p].status = 400
        /\ Refused(q) /\ out[q].err = MsgUpdateUnread /\ out[q].status = 500

\* C15: the server accepts HTTP requests only after schema creation and
\* seeding have both completed; when either fails, it never listens and no
\* request is served.
C15_ListenAfterStart ==
    /\ (pc["h2"] # "closed" \/ nops > 0) => (Seeded("h1") /\ table # <<>>)
    /\ (pc["h1"] = "done" /\ out["h1"].kind = "err") => (pc["h2"] = "closed" /\ nops = 0)

\* seeding has created the defaults and the listener has served a request
C15_Witness ==
    /\ Seeded("h1")
    /\ Len(out["h1"].val) = DefaultCount
    /\ Listed("h2")
    /\ Len(out["h2"].val) = DefaultCount

\* a statement of a create of the seeding loop fails in this step
SeedCreateFails ==
    /\ req["h1"].op = "seed"
    /\ pc["h1"] \in {"c_insert", "c_read"}
    /\ nfaults' # nfaults

\* C16: when a create fails during seed() on an empty store, seed() stops at
\* that module, attempts none of the later defaults and rejects with an
\* error; the defaults created before the failure stay in the store.
C16_SeedStopsAtFailure ==
    [][SeedCreateFails =>
          /\ pc'["h1"] = "done"
          /\ out'["h1"] = Fail(0, MsgSeedFailed, NoError)
          /\ table' = table
          /\ \A k \in 1..(req["h1"].i - 1) :
               \E id \in DOMAIN table' : ContentOf(ToModule(table'[id])) = DefaultContent(k)
          /\ Cardinality(DOMAIN table') <= req["h1"].i
          /\ \A k \in (req["h1"].i + 1)..DefaultCount :
               \A id \in DOMAIN table' : ContentOf(ToModule(table'[id])) # DefaultContent(k)]_vars

\* seeding has failed at its second default and the first is in the store
C16_Witness ==
    /\ pc["h1"] = "done"
    /\ req["h1"].op = "seed"
    /\ req["h1"].i = 2
    /\ out["h1"].err = MsgSeedFailed
    /\ \E id \in DOMAIN table : ContentOf(ToModule(table[id])) = DefaultContent(1)

ClientDone == client.pc = "done"

\* C17: when fetch rejects, fetchModules, createModule, updateModule and
\* deleteModule reject with an ApiError of status 0 whose message is the
\* fixed network-error message, whatever the text of the transport error.
C17_NetworkErrorFixed ==
    (ClientDone /\ client.got.kind = "rejects") =>
        client.out = Throws(ApiError(MsgNetwork, 0))

\* the server has answered with a failing status, or with an envelope whose
\* success is false
FailureAnswered ==
    /\ ClientDone
    /\ client.got.kind = "response"
    /\ ~Succeeds(client.got) \/ (client.got.body.json = "object" /\ ~client.got.body.success)

\* the error text of the envelope, when it has one
ErrorText(body) ==
    IF body.json = "object" /\ body.error.t = "string" /\ body.error.v # <<>>
    THEN body.error.v ELSE NoError

\* C18: when the server answers with a failing HTTP status or with an
\* envelope whose success is false, the client rejects with an ApiError whose
\* message is the envelope's error text (a generic message when there is
\* none) and whose status is the HTTP status of the response.
C18_ServerErrorCarried ==
    FailureAnswered =>
        /\ client.out.kind = "throws"
        /\ client.out.error.type = "ApiError"
        /\ client.out.error.status = <<client.got.status>>
        /\ client.out.error.message =
             IF ErrorText(client.got.body) # NoError THEN ErrorText(client.got.body)
             ELSE IF ~Succeeds(client.got)
                  THEN MsgHttpLine(client.got.status, client.got.statusText)
             ELSE MsgApiFailed

\* what the repository's validation answers to the arguments of the call
RepositoryError ==
    IF client.call = "updateModule" /\ ValidateId(client.id) # NoError
    THEN ValidateId(client.id)
    ELSE ValidateData(client.data)

\* the field an error cites
Cites(msg) ==
    CASE msg = MsgIdRequired -> "id"
      [] msg \in {MsgPromptRequired, MsgClientPrompt} -> "prompt"
      [] msg = MsgEnglishRequired -> "en.name"
      [] msg = MsgKannadaRequired -> "kn.name"
      [] OTHER -> "none"

\* C19: a create or update request that the repository would reject for an
\* invalid id, an empty prompt, an empty English name or an empty Kannada
\* name is rejected by the client without a call of fetch, citing the same
\* field, in the priority id, prompt, English name, Kannada name.
C19_ClientMirrorsRepository ==
    (/\ client.call \in {"createModule", "updateModule"}
     /\ Cites(RepositoryError) # "none") =>
        /\ ClientDone
        /\ client.fetches = 0
        /\ client.out.kind = "throws"
        /\ client.out.error.type = "ApiError"
        /\ Cites(client.out.error.message) = Cites(RepositoryError)

\* C20: every rejection of fetchModules, createModule, updateModule and
\* deleteModule is an ApiError with a message and a numeric status, for
\* every outcome of the request and every argument.
C20_OnlyApiErrors ==
    (ClientDone /\ client.out.kind = "throws") =>
        /\ client.out.error.type = "ApiError"
        /\ client.out.error.message # NoError
        /\ Len(client.out.error.status) = 1
        /\ client.out.error.status[1] \in Int

\* C21 as stated: the entity every successful create returns has createdAt
\* equal to updatedAt.
C21_StampsEqual ==
    \A p \in Procs : Created(p) => out[p].val.createdAt = out[p].val.updatedAt

\* C21 as amended: the row is inserted with createdAt equal to updatedAt, and
\* the entity create returns has them equal unless an UPDATE has written the
\* new row before the re-read.
C21_StampsEqualAtInsert ==
    /\ [](\A id \in DOMAIN table :
            Unwritten(id) => table[id].created_at = table[id].updated_at)
    /\ [](\A p \in Procs :
            (Created(p) /\ Unwritten(out[p].val.id)) =>
                out[p].val.createdAt = out[p].val.updatedAt)
    /\ [][\A id \in DOMAIN table' \ DOMAIN table :
            table'[id].created_at = table'[id].updated_at]_vars

\* a create has returned in a later second than its INSERT, and no update
\* has touched its row
C21_Witness ==
    \E p \in Procs :
        /\ Created(p)
        /\ Unwritten(out[p].val.id)
        /\ out[p].val.id \in DOMAIN table
        /\ clock > out[p].val.createdAt

\* the seeding call of h1 is running
Seeding == req["h1"].op = "seed" /\ pc["h1"] # "done"

\* C22 as stated: once the first seeding is done, no later seed() call
\* inserts the defaults again, whatever was created, updated or deleted.
C22_SeededOnce == [][Seeding => table' = table]_vars

\* C22 as amended: a seed() call inserts the defaults exactly when the store
\* is empty at its emptiness check; on a store that holds a module it
\* inserts nothing and returns an empty list.
C22_SeedsWhenEmpty ==
    /\ [][(pc["h1"] = "s_check" /\ pc'["h1"] # "s_check") =>
            IF table = <<>>
            THEN pc'["h1"] = "c_insert" /\ req'["h1"].data = DefaultModules[1]
            ELSE pc'["h1"] = "done" /\ out'["h1"] = Ok(0, <<>>) /\ table' = table]_vars
    /\ [][(Seeding /\ table' # table) =>
            /\ Cardinality(DOMAIN table) = req["h1"].i - 1
            /\ \E id \in DOMAIN table' \ DOMAIN table :
                 ContentOf(ToModule(table'[id])) = DefaultContent(req["h1"].i)]_vars

\* every default of the first seeding has been deleted and a later seed()
\* has inserted the first default again
C22_Witness ==
    /\ req["h1"].op = "seed"
    /\ DOMAIN hist.deleted = 1..DefaultCount
    /\ \E id \in DOMAIN table :
         /\ id > DefaultCount
         /\ ContentOf(ToModule(table[id])) = DefaultContent(1)

\* a column holds a string that is not empty
Filled(x) == x.t = "string" /\ x.v # <<>>

\* C23: in every reachable state of the store, after any sequence of create,
\* update, delete and seed operations, every stored module has a non-empty
\* prompt, a non-empty en.name and a non-empty kn.name.
C23_NamesNeverEmpty ==
    \A id \in DOMAIN table :
        /\ Filled(table[id].prompt)
        /\ Filled(table[id].en_name)
        /\ Filled(table[id].kn_name)

\* a request without an English name and with a blank Kannada name has been
\* refused on a store that an update has written
C23_Witness ==
    /\ table # <<>>
    /\ hist.writes # <<>>
    /\ \E p \in Procs :
         /\ pc[p] = "done"
         /\ req[p].op \in {"create", "update"}
         /\ out[p].err = MsgEnglishRequired

\* the statements of updateModule
UpdateStatements == {"u_check", "u_write", "u_read"}

\* C24: update validates the id, then the content, then checks existence,
\* writes and re-reads: invalid content for an id without a row fails with
\* the validation error, not with not-found, and no storage statement is
\* issued before both validations have passed.
C24_UpdateOrder ==
    /\ [](\A p \in Procs :
            /\ pc[p] \in UpdateStatements =>
                 ValidateId(req[p].id) = NoError /\ ValidateData(req[p].data) = NoError
            /\ (pc[p] = "done" /\ req[p].op = "update" /\ ValidateId(req[p].id) # NoError) =>
                 (out[p].status = 400 /\ out[p].body = MsgIdRequired /\ ~hist.upd[p].hit)
            /\ (/\ pc[p] = "done" /\ req[p].op = "update"
                /\ ValidateId(req[p].id) = NoError
                /\ ValidateData(req[p].data) # NoError) =>
                 /\ out[p].status = 400
                 /\ out[p].body \in {MsgDataRequired, MsgPromptRequired,
                                     MsgEnglishRequired, MsgKannadaRequired}
                 /\ ~Includes(out[p].body, <<"not", "found">>)
                 /\ ~hist.upd[p].hit)
    /\ [][\A p \in Procs :
            /\ (pc'[p] = "u_check" /\ pc[p] # "u_check") => pc[p] \in {"idle", "done"}
            /\ (pc'[p] = "u_write" /\ pc[p] # "u_write") => pc[p] = "u_check"
            /\ (pc'[p] = "u_read" /\ pc[p] # "u_read") => pc[p] = "u_write"
            /\ (pc[p] = "u_check" /\ pc'[p] # "u_check") => table' = table
            /\ (pc[p] = "u_read" /\ pc'[p] # "u_read") => table' = table]_vars

\* a PUT with invalid content for an id that has never had a row was refused
\* with the validation error
C24_Witness ==
    \E p \in Procs :
        /\ pc[p] = "done"
        /\ req[p].op = "update"
        /\ req[p].id.n > seq
        /\ out[p].status = 400
        /\ out[p].body = MsgEnglishRequired

(***************************************************************************)
(* C25: when two module operations started from the UI overlap and both    *)
(* succeed, the module list of the App state afterwards contains every     *)
(* module that was added and none that was deleted.                        *)
(***************************************************************************)
AppSettled == \A u \in Handlers : app.run[u].pc = "idle"

C25_ListReflectsBoth ==
    (AppSettled /\ app.started = 2 /\ app.log.succeeded = 2 /\ app.log.overlapped) =>
        /\ app.log.added \subseteq ModuleIds(app.state.modules)
        /\ app.log.deleted \cap ModuleIds(app.state.modules) = {}

(***************************************************************************)
(* C26: every repository create, update and delete call settles under      *)
(* every interleaving with other operations on the same id, a delete       *)
(* between the call's write statement and its re-read included: no call    *)
(* is left with its promise neither resolved nor rejected.                 *)
(***************************************************************************)
C26_CallsSettle ==
    \A p \in Procs : req[p].op \in {"create", "update", "delete"} => pc[p] # "lost"

(***************************************************************************)
(* C27: when two seed() calls overlap on an empty store, both emptiness    *)
(* checks running before either has created a module, the store ends with  *)
(* at most the fixed default count of modules.                             *)
(***************************************************************************)
C27_OverlappingSeeds ==
    (nops = 2 /\ \A p \in Procs : req[p].op = "seed") =>
        Cardinality(DOMAIN table) <= DefaultCount

(***************************************************************************)
(* C28: if seed() fails after creating at least one but not all defaults,  *)
(* every later seed() call finds the store non-empty, inserts nothing and  *)
(* returns an empty list; the store keeps only the defaults created before *)
(* the failure (no other create being made).                               *)
(***************************************************************************)
PartlySeeded ==
    /\ nfaults > 0
    /\ Cardinality(DOMAIN table) \in 1..(DefaultCount - 1)
    /\ pc["h1"] \notin {"c_insert", "c_read"}

C28_PartialSeedStays ==
    /\ [][(PartlySeeded /\ pc["h1"] = "s_check" /\ pc'["h1"] # "s_check"
                        /\ nfaults' = nfaults) =>
            /\ pc'["h1"] = "done"
            /\ out'["h1"] = Ok(0, <<>>)
            /\ table' = table]_vars
    /\ [][PartlySeeded => (table' = table /\ PartlySeeded')]_vars

C28_Witness ==
    /\ PartlySeeded
    /\ pc["h1"] = "done"
    /\ req["h1"].op = "seed"
    /\ out["h1"] = Ok(0, <<>>)
    /\ \E id \in DOMAIN table : ContentOf(ToModule(table[id])) = DefaultContent(1)
    /\ \A id \in DOMAIN table : ContentOf(ToModule(table[id])) # DefaultContent(DefaultCount)

(***************************************************************************)
(* C29: whenever the server returned an HTTP response, the ApiError raised *)
(* by the client carries that response's status code; an ApiError with     *)
(* status 0 is raised only when no response was received.                  *)
(***************************************************************************)
C29_StatusOfResponse ==
    (ClientDone /\ client.out.kind = "throws" /\ client.out.error.type = "ApiError") =>
        /\ client.got.kind = "response" => client.out.error.status = <<client.got.status>>
        /\ client.out.error.status = <<0>> => client.got.kind = "rejects"

(***************************************************************************)
(* C30: PUT and DELETE /api/modules/:id update or delete a stored module   *)
(* only when the id segment is exactly the decimal representation of that  *)
(* module's id; a segment that merely starts with digits is answered with  *)
(* 400 and changes no row.                                                 *)
(***************************************************************************)
ExactDecimal(g) == g # <<>> /\ g[1] # "0" /\ \A i \in 1..Len(g) : IsDigit(g[i])

C30_ExactSegmentOnly ==
    \A p \in Procs :
        (req[p].op \in {"update", "delete"} /\ ~ExactDecimal(req[p].seg)) =>
            /\ pc[p] = "done" => out[p].status = 400
            /\ ~hist.upd[p].hit
            /\ DOMAIN hist.deleted = {}

====
